---- MODULE Spec2Model ----
(***************************************************************************)
(* bike-cli: the Strava authentication and synchronisation engine.         *)
(*                                                                         *)
(*   src/src/services/db.js      the document store (data.json)            *)
(*   src/src/services/strava.js  StravaClient: OAuth flow, token lifecycle,*)
(*                               API requests                              *)
(*   src/src/services/sync.js    syncBikes, syncActivities, sync           *)
(*   src/src/cli.js              the auth and bikes commands               *)
(*   src/unnamed/part_000        config.js: getStravaCredentials           *)
(*                                                                         *)
(* One state machine, several specifications over the same variables:      *)
(*   Spec        the token lifecycle (authorize, loadFromDb, apiRequest,   *)
(*               logout),                                                  *)
(*   SpecSync    syncActivities, page by page,                             *)
(*   SpecCursor  syncActivities under its options since and full,          *)
(*   SpecBikes   syncBikes and the bikes commands,                         *)
(*   SpecApi     apiRequest with the rate-limit headers of its response,   *)
(*   SpecWriters modifyData under two concurrent invocations,              *)
(*   SpecTokens  getStravaToken over any token collection,                 *)
(*   SpecConfig  getStravaCredentials over any config and environment,     *)
(*   SpecWait    Spec with the scheduling of the callback wait,            *)
(*   SpecRun     sync(), from its call to its return or error.             *)
(***************************************************************************)
EXTENDS Integers, Sequences, FiniteSets, TLC

VARIABLES
    store,      \* the data file on disk: stravaTokens, bikes, activities
    client,     \* the StravaClient of the running invocation
    now,        \* Math.floor(Date.now() / 1000), shifted to start at 0
    issued,     \* the number of token pairs the provider has issued
    discarded,  \* the access token this client last dropped on a 401
    au,         \* authorize(): its position and the callback wait
    sa,         \* syncActivities(): its frame (page, counters, loaded data)
    sb,         \* syncBikes(): the outcome of the last run
    ev,         \* what the last operation did (requests sent, result)
    cf,         \* the config file, the environment, and the credentials read
    inv,        \* concurrent CLI invocations, each in a load-modify-save cycle
    sy          \* sync(): its position, its error, the steps it has completed

\* The variables of the store and the client, and those beside them.
core == <<store, client, now, issued, discarded, au, sa, sb, ev>>

aux == <<cf, inv, sy>>

vars == <<core, aux>>

----------------------------------------------------------------------------
(* Bounds of the model *)

MaxNow == 1
MaxIssued == 2
MaxAthletes == 2
MaxFullPages == 2
MaxRuns == 2
MaxGear == 2
MaxBikeOps == 3
MaxBikes == 2
MaxLate == 1
MaxCredential == 2
TicksPerSecond == 2
MaxCursorRuns == 1
MaxRate == 10
MaxCycles == 2
MaxTokens == 2

(* Program constants *)

Null == -1
Margin == 300
perPage == 200
LogoutAthleteId == 0

Athletes == 1 .. MaxAthletes

\* expires_in of a token response: a token issued at t is not yet due at t
\* (t < expiresAt - Margin) and is due from t + 1 on.
ExpiresIn == {Margin + 1}

NoToken == [none |-> TRUE]

----------------------------------------------------------------------------
(* db.js: the token collection *)

RECURSIVE findIndex(_, _, _)
\* Array.prototype.findIndex over athleteId; 0 stands for -1 (not found).
findIndex(tokens, athleteId, i) ==
    IF i > Len(tokens) THEN 0
    ELSE IF tokens[i].athleteId = athleteId THEN i
    ELSE findIndex(tokens, athleteId, i + 1)

\* upsertStravaToken without the lookup: every call pushes a record.
upsertStravaTokenPush(data, athleteId, accessToken, refreshToken, expiresAt, t) ==
    [data EXCEPT !.stravaTokens =
        Append(@, [athleteId |-> athleteId, accessToken |-> accessToken,
                   refreshToken |-> refreshToken, expiresAt |-> expiresAt,
                   createdAt |-> t, updatedAt |-> t])]

upsertStravaToken(data, athleteId, accessToken, refreshToken, expiresAt, t) ==
    LET existingIndex == findIndex(data.stravaTokens, athleteId, 1)
        token == [athleteId |-> athleteId, accessToken |-> accessToken,
                  refreshToken |-> refreshToken, expiresAt |-> expiresAt,
                  createdAt |-> t, updatedAt |-> t]
    IN  IF existingIndex >= 1
        THEN [data EXCEPT !.stravaTokens[existingIndex] = token]
        ELSE [data EXCEPT !.stravaTokens = Append(@, token)]

\* The instant the || 0 of lines 77-78 stands for: the epoch, which lies
\* before the instant 0 of the clock of the model.
Epoch == 0 - 1

\* Date.parse(token.updatedAt || token.createdAt || "") || 0; a timestamp
\* that is not there is Null.
tokenTime(token) ==
    IF token.updatedAt # Null THEN token.updatedAt
    ELSE IF token.createdAt # Null THEN token.createdAt
    ELSE Epoch

\* A reduce that returns the last record.
latestTokenLast(tokens, i, latest) == tokens[Len(tokens)]

RECURSIVE latestToken(_, _, _)
\* The reduce of getStravaToken: the last record among those of greatest
\* time (tokenTime >= latestTime keeps the later one on a tie).
latestToken(tokens, i, latest) ==
    IF i > Len(tokens) THEN latest
    ELSE IF latest = NoToken THEN latestToken(tokens, i + 1, tokens[i])
    ELSE IF tokenTime(tokens[i]) >= tokenTime(latest)
         THEN latestToken(tokens, i + 1, tokens[i])
         ELSE latestToken(tokens, i + 1, latest)

getStravaToken(data, athleteId) ==
    IF athleteId = Null
    THEN IF Len(data.stravaTokens) = 0 THEN NoToken
         ELSE latestToken(data.stravaTokens, 1, NoToken)
    ELSE LET i == findIndex(data.stravaTokens, athleteId, 1)
         IN  IF i >= 1 THEN data.stravaTokens[i] ELSE NoToken

deleteStravaToken(data, athleteId) ==
    [data EXCEPT !.stravaTokens =
        SelectSeq(@, LAMBDA tk : tk.athleteId # athleteId)]

----------------------------------------------------------------------------
(* strava.js: the token lifecycle *)

\* Math.floor(Date.now() / 1000) >= token.expires_at - 300.  The argument is
\* read through the property expires_at: a record of the store has no such
\* property (it has expiresAt), so the right side is NaN and the comparison
\* false; a null expires_at converts to 0.
isTokenExpired(token, t) ==
    IF "expires_at" \in DOMAIN token
    THEN IF token.expires_at = Null THEN t >= 0 - Margin
         ELSE t >= token.expires_at - Margin
    ELSE FALSE

\* refreshAccessToken's result for the k-th token pair of the provider.
refreshAccessToken(k, expiresIn, t) ==
    [accessToken |-> k, refreshToken |-> k, expiresAt |-> t + expiresIn]

\* The body shared by loadFromDb (lines 166-196) and ensureToken (257-287):
\* read the current token, refresh it when isTokenExpired says so, and set the
\* client's token.  rok: the refresh request succeeds.
loadToken(c, data, t, rok, k, expiresIn) ==
    LET token == getStravaToken(data, c.athleteId) IN
    IF token = NoToken
    THEN [ok |-> FALSE, err |-> "no token", client |-> c, store |-> data,
          read |-> NoToken, refreshSent |-> FALSE]
    ELSE IF isTokenExpired(token, t)
    THEN IF rok
         THEN LET refreshed == refreshAccessToken(k, expiresIn, t) IN
              [ok |-> TRUE, err |-> "",
               client |-> [c EXCEPT !.accessToken = refreshed.accessToken,
                                    !.expiresAt = refreshed.expiresAt],
               store |-> upsertStravaToken(data, c.athleteId,
                            refreshed.accessToken, refreshed.refreshToken,
                            refreshed.expiresAt, t),
               read |-> token, refreshSent |-> TRUE]
         ELSE [ok |-> FALSE, err |-> "Strava API error", client |-> c,
               store |-> data, read |-> token, refreshSent |-> TRUE]
    ELSE [ok |-> TRUE, err |-> "",
          client |-> [c EXCEPT !.accessToken = token.accessToken,
                               !.expiresAt = token.expiresAt],
          store |-> data, read |-> token, refreshSent |-> FALSE]

\* An ensureToken that reads no store and takes the client as it is.
ensureTokenUnchecked(c, data, t, rok, k, expiresIn) ==
    [ok |-> TRUE, err |-> "", client |-> c, store |-> data,
     read |-> NoToken, refreshSent |-> FALSE]

\* ensureToken (lines 255-287).
ensureToken(c, data, t, rok, k, expiresIn) ==
    IF c.accessToken = Null \/ isTokenExpired([expires_at |-> c.expiresAt], t)
    THEN loadToken(c, data, t, rok, k, expiresIn)
    ELSE [ok |-> TRUE, err |-> "", client |-> c, store |-> data,
          read |-> NoToken, refreshSent |-> FALSE]

\* apiRequest: ensureToken, then one fetch with the bearer token; 401 discards
\* the in-memory token.  status is the provider's answer.
apiRequest(c, data, t, status, rok, k, expiresIn) ==
    LET e == ensureToken(c, data, t, rok, k, expiresIn) IN
    IF ~e.ok
    THEN [ok |-> FALSE, err |-> e.err, client |-> e.client, store |-> e.store,
          sent |-> FALSE, bearer |-> Null, refreshSent |-> e.refreshSent]
    ELSE IF status = 401
    THEN [ok |-> FALSE, err |-> "Session expired. Run 'bike auth login' again.",
          client |-> [e.client EXCEPT !.accessToken = Null],
          store |-> e.store, sent |-> TRUE, bearer |-> e.client.accessToken,
          refreshSent |-> e.refreshSent]
    ELSE IF status # 200
    THEN [ok |-> FALSE, err |-> "Strava API error", client |-> e.client,
          store |-> e.store, sent |-> TRUE, bearer |-> e.client.accessToken,
          refreshSent |-> e.refreshSent]
    ELSE [ok |-> TRUE, err |-> "", client |-> e.client, store |-> e.store,
          sent |-> TRUE, bearer |-> e.client.accessToken,
          refreshSent |-> e.refreshSent]

\* A response header that is not there.
NoHeader == [kind |-> "absent", n |-> 0]

\* What response.headers.get may return for a rate-limit header: null
\* (absent), the empty string, a text that is no number, or a number.
HeaderValues ==
    {NoHeader, [kind |-> "empty", n |-> 0], [kind |-> "text", n |-> 0]}
    \cup {[kind |-> "int", n |-> k] : k \in {0} \cup (MaxRate - 2 .. MaxRate)}

\* A string in a condition: null and "" are falsy.
truthy(h) == h.kind \notin {"absent", "empty"}

\* parseInt(h, 10); nan marks NaN.
parseInt(h) ==
    IF h.kind = "int" THEN [nan |-> FALSE, n |-> h.n] ELSE [nan |-> TRUE, n |-> 0]

\* The check of lines 316-326 with > for >=.
rateLimitCheckAbove(limitHeader, usageHeader) ==
    LET usage == parseInt(usageHeader)
        limit == parseInt(limitHeader)
    IN  [warning |-> /\ truthy(usageHeader) /\ truthy(limitHeader)
                     /\ ~usage.nan /\ ~limit.nan
                     /\ 10 * usage.n > 9 * limit.n,
         thrown |-> FALSE]

\* Lines 316-326: the warning is written when both headers are truthy and
\* usage >= limit * 0.9 (false when either is NaN; over the integers the
\* product with 0.9 compares as 10 * usage >= 9 * limit).  Nothing in the
\* check throws.
rateLimitCheck(limitHeader, usageHeader) ==
    LET usage == parseInt(usageHeader)
        limit == parseInt(limitHeader)
    IN  [warning |-> /\ truthy(usageHeader) /\ truthy(limitHeader)
                     /\ ~usage.nan /\ ~limit.nan
                     /\ 10 * usage.n >= 9 * limit.n,
         thrown |-> FALSE]

----------------------------------------------------------------------------
(* State after construction *)

EmptyStore == [stravaTokens |-> <<>>, bikes |-> <<>>, activities |-> <<>>]

\* new StravaClient(credentials)
NewStravaClient == [accessToken |-> Null, expiresAt |-> Null, athleteId |-> Null]

AuIdle == [pc |-> "idle", err |-> "", listening |-> FALSE, timer |-> "none",
           anyReq |-> FALSE, outcome |-> "none", late |-> 0, conn |-> FALSE,
           pending |-> <<>>]

SaIdle == [pc |-> "idle", data |-> EmptyStore, page |-> 0, added |-> 0,
           updated |-> 0, n |-> 0, pages |-> <<>>, runs |-> 0, before |-> 0,
           err |-> "", since |-> Null, full |-> FALSE, t0 |-> 0,
           sinceTimestamp |-> 0, afters |-> {}]

SbIdle == [ops |-> 0, last |-> "none", bikesCount |-> 0, matched |-> 0,
           nextId |-> 1, gears |-> <<>>]

EvNone == [op |-> "none", ok |-> TRUE, err |-> "", refreshSent |-> FALSE,
           apiSent |-> FALSE, bearer |-> Null, status |-> 0,
           reuse |-> FALSE, replaced |-> FALSE, warned |-> FALSE,
           limit |-> NoHeader, usage |-> NoHeader, arg |-> Null,
           token |-> NoToken, kind |-> "", reply |-> 0]

NoCredentials == [none |-> TRUE]

\* DEFAULT_CONFIG (strava.clientId and clientSecret null) and an environment
\* without the two variables; no call of getStravaCredentials yet.
CfNone == [config |-> [strava |-> [clientId |-> Null, clientSecret |-> Null]],
           env |-> [BIKE_STRAVA_CLIENT_ID |-> Null,
                    BIKE_STRAVA_CLIENT_SECRET |-> Null],
           called |-> FALSE, credentials |-> NoCredentials]

\* The CLI invocations that run side by side.
Writers == {1, 2}

\* No invocation is inside modifyData.  data: what loadData returned; bikeId:
\* the id the command drew; missed: the bikes saved by others since the load.
\* sync() has not been called.
SyIdle == [pc |-> "idle", err |-> <<>>, steps |-> <<>>]

InvNone ==
    [frames |-> [p \in Writers |->
                    [pc |-> "idle", data |-> EmptyStore, bikeId |-> 0,
                     cycles |-> 0, missed |-> {}]],
     nextId |-> 1]

Init ==
    /\ store = EmptyStore
    /\ client = NewStravaClient
    /\ now = 0
    /\ issued = 0
    /\ discarded = Null
    /\ au = AuIdle
    /\ sa = SaIdle
    /\ sb = SbIdle
    /\ ev = EvNone
    /\ cf = CfNone
    /\ inv = InvNone
    /\ sy = SyIdle

\* No operation of the invocation is in flight.
Quiet == au.pc \in {"idle", "done", "failed"} /\ sa.pc \in {"idle", "done", "failed"}

\* The provider's answers to an API request.
Answers == {200, 401, 500}

\* Whether a refresh request, if one is sent, succeeds.
RefreshOutcomes ==
    IF getStravaToken(store, client.athleteId) # NoToken
       /\ isTokenExpired(getStravaToken(store, client.athleteId), now)
    THEN BOOLEAN ELSE {TRUE}

----------------------------------------------------------------------------
(* Operations of the token lifecycle *)

\* One second passes.
Tick ==
    /\ now < MaxNow
    /\ now' = now + 1
    /\ UNCHANGED <<aux, store, client, issued, discarded, au, sa, sb, ev>>

\* createStravaClient: a new invocation starts with a fresh client.
CreateStravaClient ==
    /\ Quiet
    /\ client' = NewStravaClient
    /\ discarded' = Null
    /\ ev' = [EvNone EXCEPT !.op = "createStravaClient"]
    /\ UNCHANGED <<aux, store, now, issued, au, sa, sb>>

\* StravaClient.loadFromDb
LoadFromDb ==
    /\ Quiet
    /\ \E rok \in RefreshOutcomes, expiresIn \in ExpiresIn :
         LET r == loadToken(client, store, now, rok, issued + 1, expiresIn) IN
         /\ (r.refreshSent /\ r.ok) => issued < MaxIssued
         /\ client' = r.client
         /\ store' = r.store
         /\ issued' = IF r.refreshSent /\ r.ok THEN issued + 1 ELSE issued
         /\ ev' = [EvNone EXCEPT !.op = "loadFromDb", !.ok = r.ok,
                       !.err = IF r.ok THEN ""
                               ELSE IF r.err = "no token"
                               THEN "No Strava token found. Run 'bike auth login' first."
                               ELSE r.err,
                       !.refreshSent = r.refreshSent]
    /\ UNCHANGED <<aux, now, discarded, au, sa, sb>>

\* StravaClient.getAthlete: one apiRequest on the client.
GetAthlete ==
    /\ Quiet
    /\ \E rok \in RefreshOutcomes, expiresIn \in ExpiresIn :
         LET e == ensureToken(client, store, now, rok, issued + 1, expiresIn) IN
         \E status \in Answers :
           LET r == apiRequest(client, store, now, status, rok, issued + 1, expiresIn) IN
           /\ (r.refreshSent /\ e.ok) => issued < MaxIssued
           /\ client' = r.client
           /\ store' = r.store
           /\ issued' = IF r.refreshSent /\ e.ok THEN issued + 1 ELSE issued
           /\ discarded' = IF r.sent /\ status = 401
                         THEN r.bearer ELSE discarded
           /\ ev' = [EvNone EXCEPT !.op = "apiRequest", !.ok = r.ok,
                         !.err = IF r.err = "no token"
                                 THEN "No valid Strava token. Run 'bike auth login'."
                                 ELSE r.err,
                         !.refreshSent = r.refreshSent, !.apiSent = r.sent,
                         !.bearer = r.bearer,
                         !.reuse = r.sent /\ r.bearer = discarded,
                         !.status = IF r.sent THEN status ELSE 0]
    /\ UNCHANGED <<aux, now, au, sa, sb>>

\* `auth logout` (cli.js): modifyData around getStravaToken(data, 0) and
\* deleteStravaToken.
Logout ==
    /\ Quiet
    /\ LET token == getStravaToken(store, LogoutAthleteId) IN
       /\ store' = IF token = NoToken THEN store
                   ELSE deleteStravaToken(store, token.athleteId)
       /\ ev' = [EvNone EXCEPT !.op = "logout", !.ok = token # NoToken]
    /\ UNCHANGED <<aux, client, now, issued, discarded, au, sa, sb>>

----------------------------------------------------------------------------
(* strava.js: authorize and its callback wait *)

\* createCallbackServer (lines 92-153) up to listen: the listener is open, the
\* timeout timer armed and the promise of the wait pending (outcome "none").
\* conn: a connection to the server is open; pending: the callbacks handed to
\* server.close, which run once the server has closed.
createCallbackServer ==
    [pc |-> "waiting", err |-> "", listening |-> TRUE, timer |-> "armed",
     anyReq |-> FALSE, outcome |-> "none", late |-> 0, conn |-> FALSE,
     pending |-> <<>>]

\* A promise that takes every resolve or reject: the last call wins.
settleLast(a, outcome, pc, err) ==
    [a EXCEPT !.outcome = outcome, !.pc = pc, !.err = err]

\* resolve / reject of the promise of line 93: the first call settles the
\* wait, a call on a settled promise does nothing.  pc and err are what
\* authorize (lines 217 and 250-252) makes of the outcome.
settle(a, outcome, pc, err) ==
    IF a.outcome # "none" THEN a
    ELSE [a EXCEPT !.outcome = outcome, !.pc = pc, !.err = err]

\* server.close(callback): the server stops listening at once; the callback
\* runs on the close event, after those registered before it.
close(a, callback) ==
    [a EXCEPT !.listening = FALSE, !.pending = Append(@, callback)]

\* finish (lines 106-109): clearTimeout, which does nothing to a timer that
\* has fired, and server.close.
finish(a, callback) ==
    close([a EXCEPT !.timer = IF @ = "armed" THEN "cleared" ELSE @], callback)

\* The status of the response to a request of the kind (lines 98, 112, 119,
\* 133).
replyStatus(kind) ==
    IF kind = "other" THEN 404 ELSE IF kind = "code" THEN 200 ELSE 400

\* The request handler (lines 94-136).  kind: "other" a path that is not
\* /callback, "error" /callback?error=..., "code" /callback?code=...,
\* "missing" /callback with neither.
onRequest(a, kind) ==
    LET b == [a EXCEPT !.anyReq = TRUE, !.conn = TRUE] IN
    IF kind = "other"
    THEN b
    ELSE IF kind = "error"
    THEN finish(b, [outcome |-> "error", pc |-> "failed",
                    err |-> "Authorization failed: OAuth error"])
    ELSE IF kind = "code"
    THEN finish(b, [outcome |-> "code", pc |-> "gotCode", err |-> ""])
    ELSE finish(b, [outcome |-> "missing", pc |-> "failed",
                    err |-> "Authorization failed: Missing authorization code"])

\* A timeout callback that settles the wait as if a code had arrived.
onTimeoutResolves(a) ==
    close([a EXCEPT !.timer = "fired"],
          [outcome |-> "code", pc |-> "gotCode", err |-> ""])

\* The timeout callback (lines 138-140): close the server, then reject.
onTimeout(a) ==
    close([a EXCEPT !.timer = "fired"],
          [outcome |-> "timeout", pc |-> "failed",
           err |-> "Authorization failed: Authorization timeout"])

\* The error handler of the server (lines 149-152): clearTimeout, reject.  The
\* event is that of a failed listen; such a server holds no socket.
onError(a) ==
    settle([a EXCEPT !.listening = FALSE,
                     !.timer = IF @ = "armed" THEN "cleared" ELSE @],
           "listen", "failed", "Authorization failed: listen error")

\* A close event that runs none of the callbacks.
onCloseSilent(a) == [a EXCEPT !.pending = <<>>]

RECURSIVE runCallbacks(_, _, _)
\* The callbacks of server.close, in the order of their registration.
runCallbacks(a, callbacks, i) ==
    IF i > Len(callbacks) THEN a
    ELSE runCallbacks(settle(a, callbacks[i].outcome, callbacks[i].pc,
                             callbacks[i].err), callbacks, i + 1)

\* The close event of the server: every connection has ended.
onClose(a) ==
    [runCallbacks(a, a.pending, 1) EXCEPT !.pending = <<>>]

\* authorize, lines 204-217: open the listener and wait.
AuthorizeBegin ==
    /\ Quiet
    /\ au' = createCallbackServer
    /\ ev' = [EvNone EXCEPT !.op = "authorizeBegin"]
    /\ UNCHANGED <<aux, store, client, now, issued, discarded, sa, sb>>

\* A client connects and sends nothing yet.
CallbackConnect ==
    /\ au.listening
    /\ ~au.conn
    /\ au' = [au EXCEPT !.conn = TRUE]
    /\ ev' = [EvNone EXCEPT !.op = "callbackConnect"]
    /\ UNCHANGED <<aux, store, client, now, issued, discarded, sa, sb>>

\* A connection the server still holds after server.close (a keep-alive
\* connection, one that has sent nothing) can carry further requests to the
\* handler until it ends.
LateRequestPossible ==
    /\ ~au.listening
    /\ au.conn
    /\ au.pending # <<>>
    /\ au.late < MaxLate

\* A request reaches the handler: on the open listener, or late.
CallbackRequest ==
    /\ au.listening \/ LateRequestPossible
    /\ \E kind \in {"other", "error", "code", "missing"} :
         /\ au' = [onRequest(au, kind) EXCEPT
                      !.late = IF au.listening THEN @ ELSE @ + 1]
         /\ ev' = [EvNone EXCEPT !.op = "callbackRequest", !.kind = kind,
                                 !.reply = replyStatus(kind)]
    /\ UNCHANGED <<aux, store, client, now, issued, discarded, sa, sb>>

\* The timer fires: only a timer that is armed can.
CallbackTimeout ==
    /\ au.timer = "armed"
    /\ au' = onTimeout(au)
    /\ ev' = [EvNone EXCEPT !.op = "callbackTimeout"]
    /\ UNCHANGED <<aux, store, client, now, issued, discarded, sa, sb>>

\* listen fails (the port is taken): the server emits error before any
\* client can reach it.
CallbackListenError ==
    /\ au.listening
    /\ ~au.anyReq
    /\ ~au.conn
    /\ au' = onError(au)
    /\ ev' = [EvNone EXCEPT !.op = "callbackListenError"]
    /\ UNCHANGED <<aux, store, client, now, issued, discarded, sa, sb>>

\* The open connection ends: the client closes it, or the server does
\* (keepAliveTimeout, headersTimeout and requestTimeout of the http server).
ConnectionEnd ==
    /\ au.conn
    /\ au' = [au EXCEPT !.conn = FALSE]
    /\ ev' = [EvNone EXCEPT !.op = "connectionEnd"]
    /\ UNCHANGED <<aux, store, client, now, issued, discarded, sa, sb>>

\* The server has stopped listening and holds no connection: it emits close.
ServerClose ==
    /\ ~au.listening
    /\ ~au.conn
    /\ au.pending # <<>>
    /\ au' = onClose(au)
    /\ ev' = [EvNone EXCEPT !.op = "serverClose"]
    /\ UNCHANGED <<aux, store, client, now, issued, discarded, sa, sb>>

\* An authorize that persists the exchanged tokens whether or not the profile
\* was fetched.
authorizeStoreEager(r, athlete, tokens, t) ==
    upsertStravaToken(r.store, athlete, tokens.accessToken,
                      tokens.refreshToken, tokens.expiresAt, t)

\* authorize, lines 228-240: the store after getAthlete (r its outcome): the
\* tokens are persisted under the id of the profile when it was fetched; an
\* error of getAthlete leaves the try before modifyData.
authorizeStore(r, athlete, tokens, t) ==
    IF r.ok
    THEN upsertStravaToken(r.store, athlete, tokens.accessToken,
                           tokens.refreshToken, tokens.expiresAt, t)
    ELSE r.store

\* authorize, lines 219-252, once the wait has resolved with a code: exchange
\* the code, set the client's token, fetch the profile, persist the token.
\* xok: the exchange succeeds; athlete: the id of the profile.
AuthorizeFinish ==
    /\ au.pc = "gotCode"
    /\ \E xok \in BOOLEAN, expiresIn \in ExpiresIn, athlete \in Athletes,
          rok \in RefreshOutcomes :
         IF ~xok
         THEN /\ au' = [au EXCEPT !.pc = "failed",
                           !.err = "Authorization failed: Strava API error"]
              /\ ev' = [EvNone EXCEPT !.op = "authorize", !.ok = FALSE]
              /\ UNCHANGED <<aux, store, client, issued, discarded>>
         ELSE
           /\ issued < MaxIssued
           /\ LET k == issued + 1
                  tokens == [accessToken |-> k, refreshToken |-> k,
                             expiresAt |-> now + expiresIn]
                  c1 == [client EXCEPT !.accessToken = tokens.accessToken,
                                       !.expiresAt = tokens.expiresAt]
                  e == ensureToken(c1, store, now, rok, k + 1, expiresIn)
              IN
              \E status \in Answers :
                LET r == apiRequest(c1, store, now, status, rok, k + 1, expiresIn)
                    refreshed == r.refreshSent /\ e.ok
                IN
                /\ refreshed => k < MaxIssued
                /\ issued' = IF refreshed THEN k + 1 ELSE k
                /\ discarded' = IF r.sent /\ status = 401
                              THEN r.bearer ELSE discarded
                /\ store' = authorizeStore(r, athlete, tokens, now)
                /\ IF r.ok
                   THEN /\ client' = [r.client EXCEPT !.athleteId = athlete]
                        /\ au' = [au EXCEPT !.pc = "done"]
                   ELSE /\ client' = r.client
                        /\ au' = [au EXCEPT !.pc = "failed",
                                      !.err = "Authorization failed: api"]
                /\ ev' = [EvNone EXCEPT !.op = "authorize", !.ok = r.ok,
                              !.refreshSent = r.refreshSent, !.apiSent = r.sent,
                              !.bearer = r.bearer,
                              !.reuse = r.sent /\ r.bearer = discarded,
                              !.status = IF r.sent THEN status ELSE 0,
                              !.replaced = r.ok /\ findIndex(r.store.stravaTokens, athlete, 1) >= 1]
    /\ UNCHANGED <<aux, now, sa, sb>>

----------------------------------------------------------------------------
(* The token lifecycle: any sequence of invocations of the auth commands and
   of the client's operations. *)

Next ==
    \/ Tick
    \/ CreateStravaClient
    \/ LoadFromDb
    \/ GetAthlete
    \/ Logout
    \/ AuthorizeBegin
    \/ CallbackRequest
    \/ CallbackConnect
    \/ CallbackTimeout
    \/ CallbackListenError
    \/ ConnectionEnd
    \/ ServerClose
    \/ AuthorizeFinish

Spec == Init /\ [][Next]_vars

----------------------------------------------------------------------------
(* db.js and sync.js: bikes *)

\* A saveData that writes the bikes of data into the file as it stands on
\* disk instead of replacing the file.
saveDataMerge(data, disk) ==
    LET diskIds == {disk.bikes[i].id : i \in 1 .. Len(disk.bikes)}
    IN  [disk EXCEPT !.bikes =
            @ \o SelectSeq(data.bikes, LAMBDA b : b.id \notin diskIds)]

\* A saveData that leaves the file as it is.
saveDataSkipped(data, disk) == disk

\* saveData (lines 43-46): the file becomes the serialization of data.
saveData(data, disk) == data

\* loadData (lines 30-41): the parsed content of the file.
loadData(disk) == disk

NoBike == [none |-> TRUE]

RECURSIVE findBikeIndex(_, _, _)
\* data.bikes.findIndex((b) => b.id === id); 0 stands for -1.
findBikeIndex(bikes, id, i) ==
    IF i > Len(bikes) THEN 0
    ELSE IF bikes[i].id = id THEN i
    ELSE findBikeIndex(bikes, id, i + 1)

RECURSIVE findByGear(_, _, _)
\* data.bikes.find((b) => b.stravaGearId === gearId): the first match.
findByGear(bikes, gearId, i) ==
    IF i > Len(bikes) THEN NoBike
    ELSE IF bikes[i].stravaGearId = gearId THEN bikes[i]
    ELSE findByGear(bikes, gearId, i + 1)

getBike(data, id) ==
    LET i == findBikeIndex(data.bikes, id, 1)
    IN  IF i >= 1 THEN data.bikes[i] ELSE NoBike

\* upsertBike: bike.createdAt is Null when the argument carries none.
upsertBike(data, bike, t) ==
    LET existingIndex == findBikeIndex(data.bikes, bike.id, 1)
        bikeRecord == [bike EXCEPT !.createdAt = IF @ # Null THEN @ ELSE t,
                                   !.updatedAt = t]
    IN  IF existingIndex >= 1
        THEN [data EXCEPT !.bikes[existingIndex] = bikeRecord]
        ELSE [data EXCEPT !.bikes = Append(@, bikeRecord)]

\* setDefaultBike that raises the flag of the bike and leaves the others.
setDefaultBikeOnly(data, id) ==
    LET bikes == data.bikes
    IN  [data EXCEPT !.bikes =
            [i \in 1 .. Len(bikes) |->
                [bikes[i] EXCEPT !.isDefault = (@ \/ bikes[i].id = id)]]]

setDefaultBike(data, id) ==
    LET bikes == data.bikes
    IN  [data EXCEPT !.bikes =
            [i \in 1 .. Len(bikes) |-> [bikes[i] EXCEPT !.isDefault = (bikes[i].id = id)]]]

deleteBike(data, id) ==
    [data EXCEPT !.bikes = SelectSeq(@, LAMBDA b : b.id # id)]

\* The filter of line 17 without its test of resource_state.
acceptedGearsAnyState(gears) ==
    SelectSeq(gears, LAMBDA g : g.gear_id # Null)

\* The entries syncBikes accepts (line 17): resource_state 3 and a gear_id.
acceptedGears(gears) ==
    SelectSeq(gears, LAMBDA g : g.resource_state = 3 /\ g.gear_id # Null)

\* syncBikes with a bike looked up by id instead of by stravaGearId: a remote
\* gear never matches a local bike.
syncBikeNoMatch(data, gear, nextId, t) ==
    [data |-> upsertBike(data,
                 [id |-> nextId,
                  name |-> IF gear.name # "" THEN gear.name ELSE "Unnamed Bike",
                  type |-> Null, stravaGearId |-> gear.gear_id,
                  isDefault |-> FALSE, notes |-> Null,
                  createdAt |-> Null, updatedAt |-> Null], t),
     nextId |-> nextId + 1]

\* One turn of the loop of syncBikes (lines 21-33).  nextId: the id
\* generateId returns next; description and brand_model are absent from the
\* modelled gear entries, so type and notes are null.
syncBike(data, gear, nextId, t) ==
    LET existing == findByGear(data.bikes, gear.gear_id, 1)
        bikeId == IF existing # NoBike THEN existing.id ELSE nextId
    IN  [data |-> upsertBike(data,
                     [id |-> bikeId,
                      name |-> IF gear.name # "" THEN gear.name ELSE "Unnamed Bike",
                      type |-> Null,
                      stravaGearId |-> gear.gear_id,
                      isDefault |-> IF existing # NoBike THEN existing.isDefault
                                    ELSE FALSE,
                      notes |-> Null,
                      createdAt |-> Null, updatedAt |-> Null], t),
         nextId |-> IF existing # NoBike THEN nextId ELSE nextId + 1]

RECURSIVE syncBikesLoop(_, _, _, _, _)
\* The loop of syncBikes over the accepted entries; matched counts the turns
\* that found an existing bike.
syncBikesLoop(data, bikes, i, nextId, t) ==
    IF i > Len(bikes) THEN [data |-> data, nextId |-> nextId, matched |-> 0]
    ELSE LET r == syncBike(data, bikes[i], nextId, t)
             rest == syncBikesLoop(r.data, bikes, i + 1, r.nextId, t)
         IN  [rest EXCEPT !.matched =
                 @ + (IF findByGear(data.bikes, bikes[i].gear_id, 1) # NoBike
                      THEN 1 ELSE 0)]

\* The entries of a gear list: the fully resolved bikes, a fully resolved
\* entry without gear_id (a shoe), and a bike that is not fully resolved.
GearEntries ==
    {[gear_id |-> g, resource_state |-> 3, name |-> "A"] : g \in 1 .. MaxGear}
    \cup {[gear_id |-> Null, resource_state |-> 3, name |-> "A"],
          [gear_id |-> 1, resource_state |-> 2, name |-> "A"]}

\* What the provider may return as the athlete's gear: up to two entries.
GearLists ==
    {<<>>} \cup {<<g>> : g \in GearEntries}
           \cup {<<g, h>> : g \in GearEntries, h \in GearEntries}

\* syncBikes: getGears (one apiRequest), then modifyData around the loop.
SyncBikes ==
    /\ Quiet
    /\ sb.ops < MaxBikeOps
    /\ \E status \in Answers, rok \in RefreshOutcomes, expiresIn \in ExpiresIn :
         LET r == apiRequest(client, store, now, status, rok, issued + 1, expiresIn)
             refreshed == r.refreshSent /\ (r.sent \/ r.ok)
         IN
         /\ refreshed => issued < MaxIssued
         /\ issued' = IF refreshed THEN issued + 1 ELSE issued
         /\ client' = r.client
         /\ discarded' = IF r.sent /\ status = 401 THEN r.bearer ELSE discarded
         /\ IF r.ok
            THEN \E gears \in GearLists :
                   LET m == syncBikesLoop(r.store, acceptedGears(gears), 1,
                                          sb.nextId, now)
                   IN  /\ Len(m.data.bikes) <= MaxBikes
                       /\ store' = saveData(m.data, r.store)
                       /\ sb' = [ops |-> sb.ops + 1, last |-> "sync",
                                 bikesCount |-> Len(acceptedGears(gears)),
                                 matched |-> m.matched,
                                 nextId |-> m.nextId, gears |-> gears]
            ELSE /\ store' = r.store
                 /\ sb' = [sb EXCEPT !.ops = @ + 1, !.last = "syncFailed",
                                     !.bikesCount = 0, !.matched = 0,
                                     !.gears = <<>>]
         /\ ev' = [EvNone EXCEPT !.op = "syncBikes", !.ok = r.ok,
                                 !.err = r.err]
    /\ UNCHANGED <<aux, now, au, sa>>

\* `bikes add <name>` (cli.js): a new bike under a fresh id.
BikesAdd ==
    /\ Quiet
    /\ sb.ops < MaxBikeOps
    /\ Len(store.bikes) < MaxBikes
    /\ \E gearId \in {Null} \cup (1 .. MaxGear) :
         store' = upsertBike(store,
                     [id |-> sb.nextId, name |-> "M", type |-> Null,
                      stravaGearId |-> gearId, isDefault |-> FALSE,
                      notes |-> Null, createdAt |-> Null, updatedAt |-> Null],
                     now)
    /\ sb' = [sb EXCEPT !.ops = @ + 1, !.last = "add", !.nextId = @ + 1,
                        !.bikesCount = 0, !.matched = 0, !.gears = <<>>]
    /\ UNCHANGED <<aux, client, now, issued, discarded, au, sa, ev>>

\* `bikes remove <id>` of a bike of the store.
BikesRemove ==
    /\ Quiet
    /\ sb.ops < MaxBikeOps
    /\ \E i \in 1 .. Len(store.bikes) :
         store' = deleteBike(store, store.bikes[i].id)
    /\ sb' = [sb EXCEPT !.ops = @ + 1, !.last = "remove",
                        !.bikesCount = 0, !.matched = 0, !.gears = <<>>]
    /\ UNCHANGED <<aux, client, now, issued, discarded, au, sa, ev>>

\* `bikes set-default <id>` of a bike of the store.
BikesSetDefault ==
    /\ Quiet
    /\ sb.ops < MaxBikeOps
    /\ \E i \in 1 .. Len(store.bikes) :
         store' = setDefaultBike(store, store.bikes[i].id)
    /\ sb' = [sb EXCEPT !.ops = @ + 1, !.last = "setDefault",
                        !.bikesCount = 0, !.matched = 0, !.gears = <<>>]
    /\ UNCHANGED <<aux, client, now, issued, discarded, au, sa, ev>>

\* `bikes rename <id> <name>` of a bike of the store: getBike, then upsertBike
\* of the record under the new name.
BikesRename ==
    /\ Quiet
    /\ sb.ops < MaxBikeOps
    /\ \E i \in 1 .. Len(store.bikes) :
         LET bike == getBike(store, store.bikes[i].id)
         IN  store' = upsertBike(store, [bike EXCEPT !.name = "R"], now)
    /\ sb' = [sb EXCEPT !.ops = @ + 1, !.last = "rename",
                        !.bikesCount = 0, !.matched = 0, !.gears = <<>>]
    /\ UNCHANGED <<aux, client, now, issued, discarded, au, sa, ev>>

\* apiRequest with the rate-limit headers of its response: lines 291-314 as
\* in apiRequest, then the check of lines 316-326 on a 2xx response, then the
\* body (line 328).
ApiRequestHeaders ==
    /\ Quiet
    /\ \E status \in Answers, rok \in RefreshOutcomes, expiresIn \in ExpiresIn,
          limitHeader \in HeaderValues, usageHeader \in HeaderValues :
         LET r == apiRequest(client, store, now, status, rok, issued + 1, expiresIn)
             refreshed == r.refreshSent /\ (r.sent \/ r.ok)
             check == rateLimitCheck(limitHeader, usageHeader)
         IN
         /\ refreshed => issued < MaxIssued
         /\ issued' = IF refreshed THEN issued + 1 ELSE issued
         /\ client' = r.client
         /\ store' = r.store
         /\ discarded' = IF r.sent /\ status = 401 THEN r.bearer ELSE discarded
         /\ ev' = [EvNone EXCEPT !.op = "apiRequestHeaders",
                       !.ok = r.ok /\ ~check.thrown,
                       !.err = r.err,
                       !.refreshSent = r.refreshSent, !.apiSent = r.sent,
                       !.bearer = r.bearer,
                       !.status = IF r.sent THEN status ELSE 0,
                       !.warned = r.ok /\ check.warning,
                       !.limit = IF r.sent THEN limitHeader ELSE NoHeader,
                       !.usage = IF r.sent THEN usageHeader ELSE NoHeader]
    /\ UNCHANGED <<aux, now, au, sa, sb>>

NextApi ==
    \/ Tick
    \/ ApiRequestHeaders

\* The state a sync starts its gear and activity phases from: athlete 1 has
\* authorized at time 0 (authorize, lines 225-240).
Authorized ==
    /\ store = upsertStravaToken(EmptyStore, 1, 1, 1, Margin + 1, 0)
    /\ client = [accessToken |-> 1, expiresAt |-> Margin + 1, athleteId |-> 1]
    /\ now = 0
    /\ issued = 1
    /\ discarded = Null
    /\ au = AuIdle
    /\ sa = SaIdle
    /\ sb = SbIdle
    /\ ev = EvNone
    /\ cf = CfNone
    /\ inv = InvNone
    /\ sy = SyIdle

SpecApi == Authorized /\ [][NextApi]_vars

NextBikes ==
    \/ Tick
    \/ SyncBikes
    \/ BikesAdd
    \/ BikesRemove
    \/ BikesSetDefault
    \/ BikesRename

SpecBikes == Authorized /\ [][NextBikes]_vars

----------------------------------------------------------------------------
(* sync.js: syncActivities *)

\* The gear of the remote activity with identifier id: none, or one of the
\* gear identifiers.
gearOf(id) == IF id % (MaxGear + 1) = 0 THEN Null ELSE id % (MaxGear + 1)

\* The provider's answer to getActivities({after, perPage, page}) when n
\* activities lie in the window: the page-th slice of activities 1 .. n.
remotePage(n, page) ==
    LET first == (page - 1) * perPage
        count == IF n - first >= perPage THEN perPage
                 ELSE IF n - first > 0 THEN n - first ELSE 0
    IN  [j \in 1 .. count |-> [id |-> first + j, gear_id |-> gearOf(first + j)]]

\* A record built without the lookup of the bike.
activityDataUnresolved(data, activity, athleteId) ==
    [id |-> activity.id, athleteId |-> athleteId, bikeId |-> Null,
     stravaGearId |-> activity.gear_id]

\* Lines 70-91: the record built for a fetched activity.
activityData(data, activity, athleteId) ==
    LET bike == IF activity.gear_id # Null
                THEN findByGear(data.bikes, activity.gear_id, 1) ELSE NoBike
    IN  [id |-> activity.id, athleteId |-> athleteId,
         bikeId |-> IF bike # NoBike THEN bike.id ELSE Null,
         stravaGearId |-> activity.gear_id]

\* Lines 69-102 for one page: each activity is counted as updated when a record
\* with its id is in data.activities at its turn (a stored record, or one
\* pushed earlier in the loop), as added otherwise; every record is pushed.
mergePage(data, activities, athleteId) ==
    LET stored == {data.activities[i].id : i \in 1 .. Len(data.activities)}
        existing(j) == \/ activities[j].id \in stored
                       \/ \E h \in 1 .. j - 1 : activities[h].id = activities[j].id
        nUpdated == Cardinality({j \in 1 .. Len(activities) : existing(j)})
    IN  [data |-> [data EXCEPT !.activities =
                      @ \o [j \in 1 .. Len(activities) |->
                               activityData(data, activities[j], athleteId)]],
         added |-> Len(activities) - nUpdated,
         updated |-> nUpdated]

\* Line 104 with <= for <: a full page ends the pagination.
lastPageOnFull(activities) == Len(activities) <= perPage

\* Line 104: a short page ends the pagination.
lastPage(activities) == Len(activities) < perPage

\* Instants (Date values) are counted in ticks, TicksPerSecond to the second,
\* from the instant at which now = 0.
DayTicks == 24 * 60 * 60 * TicksPerSecond

\* Date.now() when the clock of seconds shows t and frac ticks of the second
\* have passed.
DateNow(t, frac) == t * TicksPerSecond + frac

\* The explicit dates a run may be given: 10 days back, on a second and one
\* tick past it; Null when no date is given.
SinceDates == {Null, 0 - 10 * DayTicks, 1 - 10 * DayTicks}

\* Lines 45-49 with the test of full before that of since.
sinceDateFullFirst(since, full, dateNow) ==
    IF full THEN dateNow - 365 * DayTicks
    ELSE IF since # Null THEN since
    ELSE dateNow - 30 * DayTicks

\* Lines 45-49: the start of the window.
sinceDate(since, full, dateNow) ==
    IF since # Null THEN since
    ELSE IF full THEN dateNow - 365 * DayTicks
    ELSE dateNow - 30 * DayTicks

\* Line 51: Math.floor(sinceDate.getTime() / 1000).
sinceTimestamp(date) == date \div TicksPerSecond

\* The numbers of activities the provider may hold in the window of a run.
RemoteSizes == {k * perPage + r : k \in 0 .. MaxFullPages, r \in {0, 120}}

\* syncActivities up to the first fetch: the cursor (lines 45-51), the
\* counters (lines 52-55) and modifyData's loadData (db.js line 232).  sizes
\* are the numbers of remote activities, sinces, fulls and fracs the options
\* and the fraction of the second the run may start with.
syncActivitiesStart(sizes, sinces, fulls, fracs, maxRuns) ==
    /\ Quiet
    /\ sa.runs < maxRuns
    /\ \E n \in sizes, since \in sinces, full \in fulls, frac \in fracs :
         sa' = [pc |-> "paging", data |-> store, page |-> 1, added |-> 0,
                updated |-> 0, n |-> n, pages |-> <<>>, runs |-> sa.runs + 1,
                before |-> Len(store.activities), err |-> "",
                since |-> since, full |-> full, t0 |-> DateNow(now, frac),
                sinceTimestamp |->
                    sinceTimestamp(sinceDate(since, full, DateNow(now, frac))),
                afters |-> {}]
    /\ UNCHANGED <<aux, store, client, now, issued, discarded, au, sb, ev>>

\* `bike sync` without options, on the second.
SyncActivitiesStart ==
    syncActivitiesStart(RemoteSizes, {Null}, {FALSE}, {0}, MaxRuns)

\* `bike sync` with any of --since and --full, at any fraction of the second,
\* against a remote of one or two pages.
SyncActivitiesStartOptions ==
    syncActivitiesStart({120, perPage + 120}, SinceDates, BOOLEAN,
                        0 .. TicksPerSecond - 1, MaxCursorRuns)

\* One turn of the while loop (lines 58-109): fetch page sa.page, merge it
\* into the loaded data, and either go on to the next page or leave the loop,
\* after which modifyData saves the loaded data over the file (db.js line 234).
\* An error of the fetch leaves modifyData before its save.
SyncFetchPage ==
    /\ sa.pc = "paging"
    /\ \E status \in Answers, rok \in RefreshOutcomes, expiresIn \in ExpiresIn :
         LET r == apiRequest(client, store, now, status, rok, issued + 1, expiresIn)
             refreshed == r.refreshSent /\ (r.sent \/ r.ok)
             activities == remotePage(sa.n, sa.page)
             m == mergePage(sa.data, activities, client.athleteId)
         IN
         /\ refreshed => issued < MaxIssued
         /\ issued' = IF refreshed THEN issued + 1 ELSE issued
         /\ client' = r.client
         /\ discarded' = IF r.sent /\ status = 401 THEN r.bearer ELSE discarded
         /\ IF ~r.ok
            THEN /\ store' = r.store
                 /\ sa' = [sa EXCEPT !.pc = "failed", !.err = r.err,
                                     !.data = EmptyStore,
                                     !.pages = Append(@, sa.page),
                                     !.afters = IF r.sent
                                                THEN @ \cup {sa.sinceTimestamp}
                                                ELSE @]
            ELSE IF Len(activities) = 0
            THEN /\ store' = sa.data
                 /\ sa' = [sa EXCEPT !.pc = "done", !.data = EmptyStore,
                                     !.pages = Append(@, sa.page),
                                     !.afters = @ \cup {sa.sinceTimestamp}]
            ELSE IF lastPage(activities)
            THEN /\ store' = m.data
                 /\ sa' = [sa EXCEPT !.pc = "done", !.data = EmptyStore,
                                     !.added = @ + m.added,
                                     !.updated = @ + m.updated,
                                     !.pages = Append(@, sa.page),
                                     !.afters = @ \cup {sa.sinceTimestamp}]
            ELSE /\ store' = r.store
                 /\ sa' = [sa EXCEPT !.data = m.data,
                                     !.added = @ + m.added,
                                     !.updated = @ + m.updated,
                                     !.pages = Append(@, sa.page),
                                     !.afters = @ \cup {sa.sinceTimestamp},
                                     !.page = @ + 1]
    /\ UNCHANGED <<aux, now, au, sb, ev>>

NextSync ==
    \/ Tick
    \/ SyncActivitiesStart
    \/ SyncFetchPage

SpecSync == Authorized /\ [][NextSync]_vars

NextCursor ==
    \/ Tick
    \/ SyncActivitiesStartOptions
    \/ SyncFetchPage

SpecCursor == Authorized /\ [][NextCursor]_vars

----------------------------------------------------------------------------
(* db.js: modifyData under concurrent CLI invocations *)

\* `bikes add` of invocation p up to the first await of modifyData: the id
\* is drawn (cli.js line 1087) and loadData has read the file (db.js line
\* 232).
WriterLoad ==
    \E p \in Writers :
      /\ inv.frames[p].pc = "idle"
      /\ inv.frames[p].cycles < MaxCycles
      /\ inv' = [inv EXCEPT
                    !.frames[p] = [pc |-> "loaded", data |-> loadData(store),
                                   bikeId |-> inv.nextId, cycles |-> @.cycles,
                                   missed |-> {}],
                    !.nextId = @ + 1]
      /\ UNCHANGED <<core, cf, sy>>

\* The rest of modifyData for invocation p: the modifier (upsertBike on the
\* loaded data, cli.js lines 1090-1097), then saveData (db.js line 234).
WriterSave ==
    \E p \in Writers :
      /\ inv.frames[p].pc = "loaded"
      /\ LET f == inv.frames[p]
             data == upsertBike(f.data,
                        [id |-> f.bikeId, name |-> "M", type |-> Null,
                         stravaGearId |-> Null, isDefault |-> FALSE,
                         notes |-> Null, createdAt |-> Null,
                         updatedAt |-> Null], now)
         IN  /\ store' = saveData(data, store)
             /\ inv' = [inv EXCEPT !.frames =
                          [q \in Writers |->
                             IF q = p
                             THEN [f EXCEPT !.pc = "idle", !.data = EmptyStore,
                                            !.cycles = @ + 1]
                             ELSE IF inv.frames[q].pc = "loaded"
                             THEN [inv.frames[q] EXCEPT
                                      !.missed = @ \cup {f.bikeId}]
                             ELSE inv.frames[q]]]
      /\ UNCHANGED <<client, now, issued, discarded, au, sa, sb, ev, cf, sy>>

NextWriters ==
    \/ Tick
    \/ WriterLoad
    \/ WriterSave

SpecWriters == Init /\ [][NextWriters]_vars

----------------------------------------------------------------------------
(* db.js: getStravaToken over any token collection *)

\* The token records a data file may hold: of any athlete, with or without
\* updatedAt and createdAt.
TokenRecords ==
    [athleteId : Athletes, accessToken : {1}, refreshToken : {1},
     expiresAt : {Margin + 1}, createdAt : {Null, 0},
     updatedAt : {Null} \cup (0 .. MaxNow)]

RECURSIVE TokenStores(_)
\* The token collections of at most n records.
TokenStores(n) ==
    IF n = 0 THEN {<<>>}
    ELSE TokenStores(n - 1)
         \cup {Append(tokens, tk) : tokens \in {t \in TokenStores(n - 1) : Len(t) = n - 1},
                                    tk \in TokenRecords}

InitTokens ==
    /\ \E tokens \in TokenStores(MaxTokens) :
         store = [EmptyStore EXCEPT !.stravaTokens = tokens]
    /\ client = NewStravaClient
    /\ now = 0
    /\ issued = 0
    /\ discarded = Null
    /\ au = AuIdle
    /\ sa = SaIdle
    /\ sb = SbIdle
    /\ ev = EvNone
    /\ cf = CfNone
    /\ inv = InvNone
    /\ sy = SyIdle

\* A call of getStravaToken: without an athlete id (Null), or with the id of
\* an athlete, who may have no record.
GetStravaToken ==
    /\ \E athleteId \in {Null} \cup Athletes \cup {MaxAthletes + 1} :
         ev' = [EvNone EXCEPT !.op = "getStravaToken", !.arg = athleteId,
                              !.token = getStravaToken(store, athleteId)]
    /\ UNCHANGED <<aux, store, client, now, issued, discarded, au, sa, sb>>

NextTokens == GetStravaToken

SpecTokens == InitTokens /\ [][NextTokens]_vars

----------------------------------------------------------------------------
(* config.js: the credentials *)

\* A value of the config file or of the environment: Null when absent, 0 the
\* empty string, 1 .. MaxCredential the non-empty strings.
CredentialValues == {Null} \cup (0 .. MaxCredential)

\* !v for such a value.
falsy(v) == v = Null \/ v = 0

\* a || b
orElse(a, b) == IF falsy(a) THEN b ELSE a

\* getStravaCredentials (lines 59-69); redirectUri is left out.
getStravaCredentials(config, env) ==
    LET clientId == orElse(config.strava.clientId, env.BIKE_STRAVA_CLIENT_ID)
        clientSecret == orElse(config.strava.clientSecret,
                               env.BIKE_STRAVA_CLIENT_SECRET)
    IN  IF falsy(clientId) \/ falsy(clientSecret) THEN NoCredentials
        ELSE [clientId |-> clientId, clientSecret |-> clientSecret]

\* Any config file and any environment.
InitConfig ==
    /\ store = EmptyStore
    /\ client = NewStravaClient
    /\ now = 0
    /\ issued = 0
    /\ discarded = Null
    /\ au = AuIdle
    /\ sa = SaIdle
    /\ sb = SbIdle
    /\ ev = EvNone
    /\ inv = InvNone
    /\ sy = SyIdle
    /\ \E ci, cs, ei, es \in CredentialValues :
         cf = [CfNone EXCEPT !.config.strava.clientId = ci,
                             !.config.strava.clientSecret = cs,
                             !.env.BIKE_STRAVA_CLIENT_ID = ei,
                             !.env.BIKE_STRAVA_CLIENT_SECRET = es]

\* createStravaClient (strava.js lines 360-361): loadConfig, then
\* getStravaCredentials.
GetStravaCredentials ==
    /\ cf' = [cf EXCEPT !.called = TRUE,
                        !.credentials = getStravaCredentials(cf.config, cf.env)]
    /\ UNCHANGED <<core, inv, sy>>

NextConfig == GetStravaCredentials

SpecConfig == InitConfig /\ [][NextConfig]_vars

-----------------------------------------------------------------------------
(* sync.js: sync *)

\* The steps of sync (lines 119-133) in the order of the code: create,
\* createStravaClient; load, loadFromDb; authorize; bikes, syncBikes;
\* activities, syncActivities.
SyncSteps == <<"create", "load", "authorize", "bikes", "activities">>

\* The statement that follows the await of a step.
nextStep(pc) ==
    IF pc = "create" THEN "load"
    ELSE IF pc = "load" THEN "authorize"
    ELSE IF pc = "authorize" THEN "bikes"
    ELSE IF pc = "bikes" THEN "activities"
    ELSE "done"

\* The catch of sync (lines 144-146): the error thrown to the caller.
syncFailed(s, message) ==
    [s EXCEPT !.pc = "failed", !.err = <<"Sync failed: ", message>>]

\* A sync that goes on to its next step whatever the awaited step has done.
afterStepContinue(s, ok, message) ==
    [s EXCEPT !.pc = nextStep(s.pc), !.steps = Append(@, s.pc)]

\* The await of a step returns (ok) or throws (message) inside the try of
\* lines 118-146.
afterStep(s, ok, message) ==
    IF ok
    THEN [s EXCEPT !.pc = nextStep(s.pc), !.steps = Append(@, s.pc)]
    ELSE syncFailed(s, message)

\* What the step sync awaits has come to: pending, or settled with ok or an
\* error message.
stepOutcome ==
    IF sy.pc = "create"
    THEN IF cf.called /\ cf.credentials = NoCredentials
         THEN [settled |-> TRUE, ok |-> FALSE,
               message |-> "Strava credentials not configured."]
         ELSE [settled |-> ev.op = "createStravaClient", ok |-> TRUE,
               message |-> ""]
    ELSE IF sy.pc = "load"
    THEN [settled |-> ev.op = "loadFromDb", ok |-> ev.ok, message |-> ev.err]
    ELSE IF sy.pc = "authorize"
    THEN [settled |-> au.pc \in {"done", "failed"}, ok |-> au.pc = "done",
          message |-> au.err]
    ELSE IF sy.pc = "bikes"
    THEN [settled |-> sb.ops = 1, ok |-> sb.last = "sync", message |-> ev.err]
    ELSE IF sy.pc = "activities"
    THEN [settled |-> sa.pc \in {"done", "failed"}, ok |-> sa.pc = "done",
          message |-> sa.err]
    ELSE [settled |-> FALSE, ok |-> FALSE, message |-> ""]

\* `bike sync` calls sync (cli.js line 1062).
SyncBegin ==
    /\ sy.pc = "idle"
    /\ sy' = [sy EXCEPT !.pc = "create"]
    /\ UNCHANGED <<core, cf, inv>>

\* Line 119, createStravaClient: the credentials are read,
SyncGetCredentials ==
    /\ sy.pc = "create"
    /\ ~cf.called
    /\ GetStravaCredentials

\* and, when there are credentials, the client is made.
SyncCreateClient ==
    /\ sy.pc = "create"
    /\ cf.called
    /\ cf.credentials # NoCredentials
    /\ ev.op # "createStravaClient"
    /\ CreateStravaClient

\* Line 121.
SyncLoadFromDb ==
    /\ sy.pc = "load"
    /\ ev.op # "loadFromDb"
    /\ LoadFromDb

\* Lines 123-124: authorize is called; its callback wait and its exchange are
\* the steps of authorize.
SyncAuthorize ==
    /\ sy.pc = "authorize"
    /\ au.pc = "idle"
    /\ AuthorizeBegin

\* Lines 126-129.
SyncSyncBikes ==
    /\ sy.pc = "bikes"
    /\ sb.ops = 0
    /\ SyncBikes

\* Lines 131-136: syncActivities is called, against a remote of no activity
\* or of one activity for each gear and one without gear; its fetches are the
\* steps of SyncFetchPage.
SyncSyncActivities ==
    /\ sy.pc = "activities"
    /\ sa.pc = "idle"
    /\ syncActivitiesStart({0, MaxGear + 1}, {Null}, {FALSE}, {0}, MaxRuns)

\* The awaited step has settled: sync goes on to its next statement, or to
\* its catch.
SyncResume ==
    /\ stepOutcome.settled
    /\ sy' = afterStep(sy, stepOutcome.ok, stepOutcome.message)
    /\ UNCHANGED <<core, cf, inv>>

\* The store and the config sync is called on: no token record or the record
\* of athlete 1, and any credentials in the config file.
InitRun ==
    /\ \E authorized \in BOOLEAN :
         /\ store = IF authorized
                    THEN upsertStravaToken(EmptyStore, 1, 1, 1, Margin + 1, 0)
                    ELSE EmptyStore
         /\ issued = IF authorized THEN 1 ELSE 0
    /\ client = NewStravaClient
    /\ now = 0
    /\ discarded = Null
    /\ au = AuIdle
    /\ sa = SaIdle
    /\ sb = SbIdle
    /\ ev = EvNone
    /\ inv = InvNone
    /\ sy = SyIdle
    /\ \E ci, cs \in CredentialValues :
         cf = [CfNone EXCEPT !.config.strava.clientId = ci,
                             !.config.strava.clientSecret = cs]

NextRun ==
    \/ Tick
    \/ SyncBegin
    \/ SyncGetCredentials
    \/ SyncCreateClient
    \/ SyncLoadFromDb
    \/ SyncAuthorize
    \/ CallbackRequest
    \/ CallbackConnect
    \/ CallbackTimeout
    \/ CallbackListenError
    \/ ConnectionEnd
    \/ ServerClose
    \/ AuthorizeFinish
    \/ SyncSyncBikes
    \/ SyncSyncActivities
    \/ SyncFetchPage
    \/ SyncResume

SpecRun == InitRun /\ [][NextRun]_vars

----------------------------------------------------------------------------
(* Properties of the token lifecycle (Spec) *)

AthleteIds(tokens) == {tokens[i].athleteId : i \in 1 .. Len(tokens)}

RefreshTokens(tokens) == {tokens[i].refreshToken : i \in 1 .. Len(tokens)}

\* The token record loadFromDb or ensureToken reads in this step, NoToken when
\* the step reads none.
TokenRead ==
    IF ev'.op = "loadFromDb"
       \/ (ev'.op = "apiRequest"
           /\ (client.accessToken = Null
               \/ isTokenExpired([expires_at |-> client.expiresAt], now)))
    THEN getStravaToken(store, client.athleteId)
    ELSE NoToken

Due(token) == now >= token.expiresAt - Margin

C4_RefreshIffDue ==
    [][TokenRead # NoToken => (ev'.refreshSent <=> Due(TokenRead))]_vars

\* C6: the token store holds at most one record per athleteId in every
\* reachable state, and an authorization or refresh that persists a token for
\* an athlete who already has a record replaces it: the number of records and
\* the set of athletes stay the same.
C6_OneTokenPerAthlete ==
    /\ [](\A i, j \in 1 .. Len(store.stravaTokens) :
            store.stravaTokens[i].athleteId = store.stravaTokens[j].athleteId
                => i = j)
    /\ [][(/\ ev'.op \in {"authorize", "loadFromDb", "apiRequest"}
           /\ store'.stravaTokens # store.stravaTokens
           /\ client'.athleteId \in AthleteIds(store.stravaTokens))
          => /\ Len(store'.stravaTokens) = Len(store.stravaTokens)
             /\ AthleteIds(store'.stravaTokens) = AthleteIds(store.stravaTokens)
         ]_vars

\* An authorization has replaced the record of an athlete who had one.
C6_Witness ==
    /\ ev.op = "authorize" /\ ev.ok /\ ev.replaced
    /\ Len(store.stravaTokens) = 1
    /\ store.stravaTokens[1].accessToken = 2

\* C9: when the timeout timer fires and no request has reached the listener,
\* authorize fails with "Authorization timeout", and from the opening of the
\* listener to that failure the store is not written.
C9_TimeoutWritesNothing ==
    /\ [][au.pc = "waiting" => store' = store]_vars
    /\ [][(au.pc = "waiting" /\ au.timer = "fired" /\ ~au.anyReq
           /\ ev'.op = "serverClose")
          => /\ au'.pc = "failed"
             /\ au'.outcome = "timeout"
             /\ au'.err = "Authorization failed: Authorization timeout"
             /\ ~au'.listening
         ]_vars
    /\ []((au.timer = "fired" /\ ~au.anyReq)
            => /\ ~au.listening
               /\ au.pc \in {"waiting", "failed"}
               /\ au.pc = "failed"
                    => au.err = "Authorization failed: Authorization timeout")

\* authorize has failed by timeout with no request received.
C9_Witness ==
    /\ au.pc = "failed" /\ au.timer = "fired" /\ ~au.anyReq
    /\ au.err = "Authorization failed: Authorization timeout"

\* The client holds no access token and the store has no token record for it
\* (none at all when the client knows no athlete).
NoTokenAnywhere ==
    /\ client.accessToken = Null
    /\ IF client.athleteId = Null
       THEN store.stravaTokens = <<>>
       ELSE client.athleteId \notin AthleteIds(store.stravaTokens)

\* C29: when the client holds no access token and the store has no record
\* for it, apiRequest and loadFromDb fail with the no-token error that names
\* 'bike auth login', send no request, and leave the store unchanged.
C29_NoTokenFailsCleanly ==
    [][(NoTokenAnywhere /\ now' = now
        /\ ev'.op \in {"apiRequest", "loadFromDb"})
        => /\ ~ev'.ok
           /\ ev'.err = IF ev'.op = "apiRequest"
                        THEN "No valid Strava token. Run 'bike auth login'."
                        ELSE "No Strava token found. Run 'bike auth login' first."
           /\ ~ev'.apiSent
           /\ ~ev'.refreshSent
           /\ store' = store
           /\ client' = client
      ]_vars

\* apiRequest has failed for want of a token, on a client whose token a 401
\* had discarded.
C29_Witness ==
    /\ ev.op = "apiRequest"
    /\ ev.err = "No valid Strava token. Run 'bike auth login'."
    /\ ~ev.apiSent
    /\ NoTokenAnywhere
    /\ discarded # Null

\* C24: an authorize that fails (denial, missing code, a failed code exchange
\* or a failed profile fetch) leaves the token store unchanged; authorize
\* writes a token record only after the exchange and the profile fetch have
\* both succeeded, and the record is that of the athlete id of the profile.
C24_AuthorizePersistsLast ==
    /\ [][(au.pc \in {"waiting", "gotCode"} /\ au'.pc = "failed")
          => store'.stravaTokens = store.stravaTokens
       ]_vars
    /\ [][(au.pc \in {"waiting", "gotCode"}
           /\ store'.stravaTokens # store.stravaTokens)
          => /\ au.pc = "gotCode" /\ au'.pc = "done"
             /\ ev'.op = "authorize" /\ ev'.ok
             /\ ev'.apiSent /\ ev'.status = 200
             /\ client'.athleteId \in Athletes
             /\ LET token == getStravaToken(store', client'.athleteId) IN
                /\ token # NoToken
                /\ token.athleteId = client'.athleteId
                /\ token.accessToken = client'.accessToken
                /\ token.accessToken = ev'.bearer
             /\ \A i \in 1 .. Len(store.stravaTokens) :
                  store.stravaTokens[i].athleteId # client'.athleteId
                      => \E j \in 1 .. Len(store'.stravaTokens) :
                            store'.stravaTokens[j] = store.stravaTokens[i]
       ]_vars

\* An authorize has failed at the profile fetch, after a code exchange that
\* succeeded, on a store that holds a token record.
C24_Witness ==
    /\ au.pc = "failed" /\ au.outcome = "code"
    /\ ev.op = "authorize" /\ ev.apiSent /\ ev.status # 200
    /\ Len(store.stravaTokens) >= 1

\* C13: after `auth logout` on a store that holds a token record of the
\* current athlete (the most recently updated record), that record is no
\* longer in the store and getStravaToken for that athlete returns null.
C13_LogoutDeletesToken ==
    [][(ev'.op = "logout" /\ getStravaToken(store, Null) # NoToken)
        => LET current == getStravaToken(store, Null) IN
           /\ current.athleteId \notin AthleteIds(store'.stravaTokens)
           /\ getStravaToken(store', current.athleteId) = NoToken
      ]_vars

\* C11: on every exit path of the callback wait (code, error parameter,
\* missing code, timeout, listen error) the listener is closed and the timer
\* is no longer armed, and the wait has one outcome, that of the first
\* terminal event: no later request and no timer firing changes it.
C11_SingleOutcome ==
    /\ []((au.outcome # "none" \/ au.pending # <<>>)
            => ~au.listening /\ au.timer \in {"cleared", "fired"})
    /\ [](au.outcome = "none" => au.pc \in {"idle", "waiting"})
    /\ [][(au.pending # <<>> /\ ev'.op # "authorizeBegin")
          => IF ev'.op = "serverClose"
             THEN /\ au'.outcome = au.pending[1].outcome
                  /\ au'.pc = au.pending[1].pc
                  /\ au'.err = au.pending[1].err
             ELSE /\ au'.pending # <<>>
                  /\ au'.pending[1] = au.pending[1]
                  /\ au'.outcome = "none"
                  /\ au'.timer = au.timer
         ]_vars
    /\ [][(au.outcome # "none" /\ ev'.op # "authorizeBegin")
            => au'.outcome = au.outcome
         ]_vars

\* A request carrying an error has reached the handler after the response to
\* a code, and the wait has resolved with the code.
C11_Witness ==
    /\ ev.op = "serverClose"
    /\ au.late >= 1
    /\ au.outcome = "code"
    /\ au.pc = "gotCode"

\* C10: a 401 discards the in-memory access token and fails the call with the
\* instruction to log in again, with one request sent and no refresh; and no
\* later request of the same client bears the token that was discarded.
C10_NoReuseAfter401 ==
    /\ [][(ev'.op = "apiRequest" /\ ev'.status = 401)
            => /\ client'.accessToken = Null
               /\ ~ev'.ok
               /\ ev'.err = "Session expired. Run 'bike auth login' again."
               /\ store' = store
         ]_vars
    /\ [](ev.apiSent => ~ev.reuse)

----------------------------------------------------------------------------
(* Properties of syncActivities (SpecSync) *)

ActivityIds(activities) == {activities[i].id : i \in 1 .. Len(activities)}

\* C1: in every state reachable by any sequence of syncs, no two activity
\* records of the store share an id.
C1_OneRecordPerActivityId ==
    Cardinality(ActivityIds(store.activities)) = Len(store.activities)

\* C2: a first sync from an empty collection that fetches N activities returns
\* added = N, updated = 0; the sync that follows it with the same remote data
\* returns added = 0, updated = N and leaves the collection at size N.
C2_SecondSyncUpdatesInPlace ==
    /\ (sa.pc = "done" /\ sa.runs = 1)
         => /\ sa.added = sa.n /\ sa.updated = 0
            /\ Len(store.activities) = sa.n
    /\ (sa.pc = "done" /\ sa.runs = 2 /\ sa.n > 0 /\ sa.before = sa.n)
         => /\ sa.added = 0 /\ sa.updated = sa.n
            /\ Len(store.activities) = sa.n

\* C5: when a page fetch fails after k >= 1 pages were fetched and merged, the
\* run requests no further page and the records merged from those k pages are
\* in the persisted store.
C5_PartialProgressKept ==
    /\ (sa.pc = "failed" /\ Len(sa.pages) >= 2)
         => 1 .. (Len(sa.pages) - 1) * perPage \subseteq ActivityIds(store.activities)
    /\ sa.pc = "failed" => sa.page = Len(sa.pages)

\* C23: when a run has completed, added + updated equals the number of
\* activities fetched in the run, and added equals the growth of the
\* activities collection during the run.
C23_AddedIsGrowth ==
    sa.pc = "done"
      => /\ sa.added + sa.updated = sa.n
         /\ sa.added = Len(store.activities) - sa.before

C8_PaginationTerminates ==
    /\ sa.pages = [i \in 1 .. Len(sa.pages) |-> i]
    /\ sa.pc = "paging"
         => /\ sa.page = Len(sa.pages) + 1
            /\ Len(sa.pages) * perPage <= sa.n
    /\ sa.pc = "done"
         => /\ Len(sa.pages) = (sa.n \div perPage) + 1
            /\ sa.added + sa.updated = sa.n
            /\ 1 .. sa.n \subseteq ActivityIds(store.activities)

\* Pages of sizes 200, 200, 120: three fetches, 520 activities merged.
C8_Witness ==
    /\ sa.pc = "done" /\ sa.n = 2 * perPage + 120
    /\ sa.pages = <<1, 2, 3>>
    /\ sa.added + sa.updated = 520

----------------------------------------------------------------------------
(* Properties of syncBikes (SpecBikes) *)

\* C7: across a gear sync every bike keeps its id and its stravaGearId, the
\* bike found for a gear identifier is the same bike afterwards, and a bike is
\* created under a new id only for a gear identifier that no bike had.
C7_BikeIdStable ==
    [][(sb'.last = "sync" /\ sb'.ops = sb.ops + 1)
        => /\ Len(store'.bikes) >= Len(store.bikes)
           /\ \A i \in 1 .. Len(store.bikes) :
                /\ store'.bikes[i].id = store.bikes[i].id
                /\ store'.bikes[i].stravaGearId = store.bikes[i].stravaGearId
           /\ \A g \in 1 .. MaxGear :
                findByGear(store.bikes, g, 1) # NoBike
                    => findByGear(store'.bikes, g, 1).id
                         = findByGear(store.bikes, g, 1).id
           /\ \A i \in Len(store.bikes) + 1 .. Len(store'.bikes) :
                /\ findByGear(store.bikes, store'.bikes[i].stravaGearId, 1) = NoBike
                /\ store'.bikes[i].id >= sb.nextId
                /\ \A j \in Len(store.bikes) + 1 .. Len(store'.bikes) :
                     store'.bikes[j].stravaGearId = store'.bikes[i].stravaGearId
                        => j = i
       ]_vars

\* A second gear sync has matched the bike the first one created.
C7_Witness ==
    /\ sb.last = "sync" /\ sb.ops = 2 /\ sb.matched >= 1
    /\ sb.nextId = 2
    /\ Len(store.bikes) = 1 /\ store.bikes[1].id = 1
    /\ store.bikes[1].name = "A"

\* C25: a gear sync removes no bike, leaves unchanged every bike whose
\* stravaGearId matches no accepted entry, and of a matched bike keeps the id,
\* type, stravaGearId, isDefault and createdAt.
C25_GearSyncFrame ==
    [][(sb'.last = "sync" /\ sb'.ops = sb.ops + 1)
        => /\ Len(store'.bikes) >= Len(store.bikes)
           /\ \A i \in 1 .. Len(store.bikes) :
                LET old == store.bikes[i]
                    new == store'.bikes[i]
                    accepted == acceptedGears(sb'.gears)
                IN  IF \E j \in 1 .. Len(accepted) :
                          accepted[j].gear_id = old.stravaGearId
                    THEN /\ new.id = old.id
                         /\ new.type = old.type
                         /\ new.stravaGearId = old.stravaGearId
                         /\ new.isDefault = old.isDefault
                         /\ new.createdAt = old.createdAt
                    ELSE new = old
       ]_vars

\* C14: in every state reached by `bikes add`, `bikes set-default`, `bikes
\* rename`, `bikes remove` and gear syncs from an empty bikes collection, at
\* most one bike record has isDefault = TRUE.
C14_AtMostOneDefault ==
    Cardinality({i \in 1 .. Len(store.bikes) : store.bikes[i].isDefault}) <= 1

\* The default flag has moved from one bike to another of two.
C14_Witness ==
    /\ sb.last = "setDefault"
    /\ sb.ops = 3
    /\ Len(store.bikes) = 2
    /\ store.bikes[2].isDefault /\ ~store.bikes[1].isDefault

\* C15: a gear sync creates or changes a bike only for the entries of the
\* remote list with resource_state = 3 and a gear identifier: every bike it
\* creates or changes carries the gear identifier of such an entry, and the
\* reported bike count is the number of such entries.
C15_OnlyAcceptedGears ==
    [][(sb'.last = "sync" /\ sb'.ops = sb.ops + 1)
        => LET gears == sb'.gears
               ok(j) == gears[j].resource_state = 3 /\ gears[j].gear_id # Null
               acceptedIds == {gears[j].gear_id : j \in {h \in 1 .. Len(gears) : ok(h)}}
           IN  /\ Len(store'.bikes) >= Len(store.bikes)
               /\ \A i \in 1 .. Len(store'.bikes) :
                    (i > Len(store.bikes) \/ store'.bikes[i] # store.bikes[i])
                        => store'.bikes[i].stravaGearId \in acceptedIds
               /\ sb'.bikesCount = Cardinality({h \in 1 .. Len(gears) : ok(h)})
      ]_vars

\* A gear sync of a list with an entry that is not fully resolved (gear 1)
\* and a fully resolved one (gear 2) has created the bike of gear 2 only.
C15_Witness ==
    /\ sb.last = "sync"
    /\ sb.ops = 1
    /\ Len(sb.gears) = 2
    /\ sb.gears[1].resource_state = 2 /\ sb.gears[1].gear_id = 1
    /\ sb.gears[2].resource_state = 3 /\ sb.gears[2].gear_id = 2
    /\ sb.bikesCount = 1
    /\ Len(store.bikes) = 1
    /\ store.bikes[1].stravaGearId = 2

\* C16: in every state reached by gear syncs and `bikes add`, no two bike
\* records share the same non-null stravaGearId.
C16_GearIdUnique ==
    \A i, j \in 1 .. Len(store.bikes) :
        (/\ store.bikes[i].stravaGearId # Null
         /\ store.bikes[i].stravaGearId = store.bikes[j].stravaGearId) => i = j

\* C17: the cursor of a run is the explicit since date when one is given,
\* whatever full is; otherwise Date.now() minus 365 days when full, otherwise
\* Date.now() minus 30 days; and every page request of the run sends as after
\* that instant in whole seconds, rounded down.
C17_Cursor ==
    sa.pc # "idle" =>
      LET window == IF sa.since # Null THEN sa.since
                    ELSE IF sa.full THEN sa.t0 - 365 * DayTicks
                    ELSE sa.t0 - 30 * DayTicks
      IN  /\ sa.sinceTimestamp * TicksPerSecond <= window
          /\ window < (sa.sinceTimestamp + 1) * TicksPerSecond
          /\ sa.afters \subseteq {sa.sinceTimestamp}

\* A run given both a since date off the second and full has fetched two
\* pages, both with the since date's second as after.
C17_Witness ==
    /\ sa.pc = "done"
    /\ Len(sa.pages) = 2
    /\ sa.since = 1 - 10 * DayTicks
    /\ sa.full
    /\ sa.afters = {0 - 10 * 24 * 60 * 60}

----------------------------------------------------------------------------
(* Properties of apiRequest's rate-limit check (SpecApi) *)

\* C18: for every 2xx response apiRequest returns the body whatever the
\* rate-limit headers are, and it writes the warning exactly when both
\* headers are present with numbers and usage >= 90% of the limit; on other
\* responses it writes none.
C18_RateLimitAdvisory ==
    ev.op = "apiRequestHeaders" =>
      /\ (ev.apiSent /\ ev.status = 200) => ev.ok
      /\ ev.warned <=> /\ ev.apiSent /\ ev.status = 200
                       /\ ev.limit.kind = "int" /\ ev.usage.kind = "int"
                       /\ 10 * ev.usage.n >= 9 * ev.limit.n

\* A 2xx response with usage at exactly 90% of the limit: the body is
\* returned and the warning written.
C18_Witness ==
    /\ ev.op = "apiRequestHeaders"
    /\ ev.ok /\ ev.warned
    /\ ev.limit = [kind |-> "int", n |-> 10]
    /\ ev.usage = [kind |-> "int", n |-> 9]

----------------------------------------------------------------------------
(* Properties of modifyData under concurrent invocations (SpecWriters) *)

BikeIds(data) == {data.bikes[i].id : i \in 1 .. Len(data.bikes)}

\* C19: when an invocation saves, every change another invocation has saved
\* since this one loaded the file is absent from the store (lost update);
\* when no other invocation has saved in between, the store holds what it
\* held before and the change of this invocation.
C19_LostUpdate ==
    [][\A p \in Writers :
         (inv.frames[p].pc = "loaded" /\ inv'.frames[p].pc = "idle")
           => /\ inv.frames[p].bikeId \in BikeIds(store')
              /\ \A b \in inv.frames[p].missed : b \notin BikeIds(store')
              /\ inv.frames[p].missed = {}
                   => BikeIds(store') = BikeIds(store) \cup {inv.frames[p].bikeId}
      ]_vars

\* Both invocations loaded the file before either saved and both have saved:
\* the store holds the bike of the second to save only.
C19_Witness ==
    /\ \A p \in Writers : inv.frames[p].pc = "idle" /\ inv.frames[p].cycles = 1
    /\ inv.frames[1].missed = {2}
    /\ BikeIds(store) = {1}

----------------------------------------------------------------------------
(* Properties of getStravaToken (SpecTokens) *)

\* C20: getStravaToken without an athlete id returns null on an empty token
\* collection and otherwise a record of the collection whose updatedAt
\* (createdAt when it has none) is the greatest; with an athlete id it
\* returns a record of that athlete, or null when the athlete has none.
C20_CurrentToken ==
    ev.op = "getStravaToken" =>
      LET tokens == store.stravaTokens
          time(tk) == IF tk.updatedAt # Null THEN tk.updatedAt
                      ELSE IF tk.createdAt # Null THEN tk.createdAt
                      ELSE Epoch
          held(tk) == \E i \in 1 .. Len(tokens) : tokens[i] = tk
      IN  IF ev.arg = Null
          THEN IF Len(tokens) = 0 THEN ev.token = NoToken
               ELSE /\ held(ev.token)
                    /\ \A i \in 1 .. Len(tokens) :
                         time(ev.token) >= time(tokens[i])
          ELSE IF \E i \in 1 .. Len(tokens) : tokens[i].athleteId = ev.arg
               THEN held(ev.token) /\ ev.token.athleteId = ev.arg
               ELSE ev.token = NoToken

\* A call without athlete id on two records returns the first, whose
\* updatedAt is later than the createdAt of the second, which has no
\* updatedAt.
C20_Witness ==
    /\ ev.op = "getStravaToken"
    /\ ev.arg = Null
    /\ Len(store.stravaTokens) = 2
    /\ store.stravaTokens[1].updatedAt = 1
    /\ store.stravaTokens[2].updatedAt = Null
    /\ store.stravaTokens[2].createdAt = 0
    /\ store.stravaTokens[1].athleteId # store.stravaTokens[2].athleteId
    /\ ev.token = store.stravaTokens[1]

\* The timer of setTimeout fires unless it is cleared, and the server emits
\* close once it holds no connection.  Nothing in the program ends a
\* connection, so no fairness is assumed of ConnectionEnd.
SpecWait == Spec /\ WF_vars(CallbackTimeout) /\ WF_vars(ServerClose)

\* C22: the callback wait always eventually settles: from the moment the
\* listener starts, under any sequence of requests, including none and
\* including connections that stay open, the wait eventually resolves with a
\* code or rejects.
C22_WaitSettles ==
    (au.pc = "waiting" /\ au.outcome = "none") ~> (au.outcome # "none")

\* C26: the callback wait ends only through a /callback request carrying a
\* code, one carrying an error, or the timeout; any other request (another
\* path, or /callback with neither parameter) is answered with 404 or 400 and
\* leaves the listener running and the wait pending.
C26_OtherRequestsLeaveWaitPending ==
    [][(au.listening /\ ev'.op = "callbackRequest"
        /\ ev'.kind \in {"other", "missing"})
       => /\ ev'.reply \in {404, 400}
          /\ au'.listening
          /\ au'.timer = au.timer
          /\ au'.pending = au.pending
      ]_vars

-----------------------------------------------------------------------------
(* Properties of sync (SpecRun) *)

\* The message of the error the step at position n + 1 of SyncSteps has
\* thrown.
lowerMessage(n) ==
    IF n = 0 THEN "Strava credentials not configured."
    ELSE IF n = 2 THEN au.err
    ELSE IF n = 4 THEN sa.err
    ELSE ev.err

\* C27: the steps of sync run in the order create client, load stored token,
\* authorize, gear sync, activity sync; a step starts only after the previous
\* one has succeeded, none runs twice, and an error of any step reaches the
\* caller as 'Sync failed: ' followed by its message; on a store without a
\* token record sync fails before a listener is opened or a request is sent.
C27_StepsInOrder ==
    /\ [](/\ Len(sy.steps) <= Len(SyncSteps)
          /\ sy.steps = SubSeq(SyncSteps, 1, Len(sy.steps)))
    /\ [](sy.pc \notin {"idle", "failed"}
            => sy.pc = IF Len(sy.steps) = Len(SyncSteps) THEN "done"
                       ELSE SyncSteps[Len(sy.steps) + 1])
    /\ [][(~cf.called /\ cf'.called) => sy.pc = "create"]_vars
    /\ [][(ev.op # "loadFromDb" /\ ev'.op = "loadFromDb")
          => /\ sy.pc = "load" /\ sy.steps = <<"create">>
             /\ cf.credentials # NoCredentials
             /\ ev.op = "createStravaClient"
       ]_vars
    /\ [][(au.pc # "waiting" /\ au'.pc = "waiting")
          => /\ sy.pc = "authorize" /\ Len(sy.steps) = 2
             /\ au = AuIdle
             /\ ev.op = "loadFromDb" /\ ev.ok
             /\ client.accessToken # Null
       ]_vars
    /\ [][sb'.ops # sb.ops
          => /\ sy.pc = "bikes" /\ Len(sy.steps) = 3
             /\ sb.ops = 0
             /\ au.pc = "done"
       ]_vars
    /\ [][(sa.pc # "paging" /\ sa'.pc = "paging")
          => /\ sy.pc = "activities" /\ Len(sy.steps) = 4
             /\ sa = SaIdle
             /\ sb.ops = 1 /\ sb.last = "sync"
       ]_vars
    /\ [](au.pc = "failed" => sy.pc \in {"authorize", "failed"})
    /\ [](sb.last = "syncFailed" => sy.pc \in {"bikes", "failed"})
    /\ [](sa.pc = "failed" => sy.pc \in {"activities", "failed"})
    /\ [](sy.pc = "failed"
            => sy.err = <<"Sync failed: ", lowerMessage(Len(sy.steps))>>)
    /\ [](sy.pc = "done" => sy.err = <<>> /\ sa.pc = "done")
    /\ [][sy.pc \in {"failed", "done"}
          => UNCHANGED <<store, client, issued, au, sa, sb, ev, cf, sy>>
       ]_vars
    /\ [](store.stravaTokens = <<>>
            => /\ au = AuIdle
               /\ ~ev.apiSent /\ ~ev.refreshSent /\ issued = 0
               /\ sb = SbIdle /\ sa = SaIdle
               /\ sy.pc \in {"idle", "create", "load", "failed"})

\* sync has failed on a store without a token record, with the message of
\* loadFromDb behind the prefix.
C27_Witness ==
    /\ sy.pc = "failed"
    /\ sy.steps = <<"create">>
    /\ store.stravaTokens = <<>>
    /\ sy.err = <<"Sync failed: ",
                  "No Strava token found. Run 'bike auth login' first.">>

\* C21: when the activity sync fails after the gear sync has completed, every
\* bike the gear sync wrote (one for each accepted entry of the gear list,
\* under its name) is in the store after sync has failed: the activity phase
\* and the failure of sync leave the bikes as the gear sync saved them.
C21_GearSyncKept ==
    /\ [][sy.pc \in {"activities", "failed"} => store'.bikes = store.bikes]_vars
    /\ []((sy.pc = "failed" /\ Len(sy.steps) = 4)
            => LET accepted == acceptedGears(sb.gears) IN
               /\ sa.pc = "failed"
               /\ \A j \in 1 .. Len(accepted) :
                    LET bike == findByGear(store.bikes, accepted[j].gear_id, 1)
                    IN  /\ bike # NoBike
                        /\ \E h \in 1 .. Len(accepted) :
                              /\ accepted[h].gear_id = accepted[j].gear_id
                              /\ bike.name = accepted[h].name)

\* sync has failed in its activity phase after a gear sync that wrote two
\* bikes.
C21_Witness ==
    /\ sy.pc = "failed"
    /\ sy.steps = <<"create", "load", "authorize", "bikes">>
    /\ Len(acceptedGears(sb.gears)) = 2
    /\ Len(store.bikes) = 2

\* C28: the bikeId of each activity stored by a run of sync is the id of the
\* bike whose stravaGearId is the activity's gear identifier in the bikes
\* collection as the gear sync left it, null when the activity has no gear
\* identifier or no bike matches; a bikeId that is not null is the id of a
\* bike of the store.
C28_BikeIdResolved ==
    (sy.pc = "done" \/ (sy.pc = "activities" /\ sa.pc = "done"))
      => \A i \in 1 .. Len(store.activities) :
           LET activity == store.activities[i]
               bike == findByGear(store.bikes, activity.stravaGearId, 1)
           IN  /\ activity.stravaGearId = gearOf(activity.id)
               /\ IF activity.stravaGearId = Null \/ bike = NoBike
                  THEN activity.bikeId = Null
                  ELSE /\ activity.bikeId = bike.id
                       /\ \E j \in 1 .. Len(store.bikes) :
                             /\ store.bikes[j].id = activity.bikeId
                             /\ store.bikes[j].stravaGearId
                                  = activity.stravaGearId

\* sync has returned with an activity resolved to a bike, one whose gear has
\* no bike, and one without gear.
C28_Witness ==
    /\ sy.pc = "done"
    /\ \E i, j, k \in 1 .. Len(store.activities) :
         /\ store.activities[i].bikeId # Null
         /\ store.activities[j].stravaGearId # Null
         /\ store.activities[j].bikeId = Null
         /\ store.activities[k].stravaGearId = Null

----------------------------------------------------------------------------
(* Properties of the credentials (SpecConfig) *)

\* C12: whenever an environment variable is set, the returned clientId (resp.
\* clientSecret) is the environment's value, also when the config file holds
\* another non-empty value; and the result is null exactly when the id or the
\* secret is supplied by neither the config file nor the environment.
C12_EnvironmentFirst ==
    cf.called =>
      LET cred == cf.credentials
          envId == cf.env.BIKE_STRAVA_CLIENT_ID
          envSecret == cf.env.BIKE_STRAVA_CLIENT_SECRET
          cfgId == cf.config.strava.clientId
          cfgSecret == cf.config.strava.clientSecret
      IN  /\ (cred # NoCredentials /\ ~falsy(envId)) => cred.clientId = envId
          /\ (cred # NoCredentials /\ ~falsy(envSecret))
                => cred.clientSecret = envSecret
          /\ cred = NoCredentials
                <=> \/ (falsy(envId) /\ falsy(cfgId))
                    \/ (falsy(envSecret) /\ falsy(cfgSecret))

====
